---- MODULE Spec2Model ----
(***************************************************************************)
(* Cache-coherent download orchestrator of go-package-info-cli.            *)
(*                                                                         *)
(* Several operating-system processes run App.AnalyzeWithCache on the same *)
(* architecture: they share the lock marker <cacheFile>.lock, the cache    *)
(* file and the temporary sibling <cacheFile>.tmp.  Every system call on   *)
(* one of these paths is one step of the model.  Files are inodes: a path  *)
(* names an inode, an open descriptor keeps its inode after the path was   *)
(* unlinked, flock(2) locks the inode of the descriptor.                   *)
(*                                                                         *)
(* Time is counted in hours: LockStaleTTL and the default ShortCacheWindow *)
(* are one hour; the lock timeout (30s), the retry backoff (1s, 2s), the   *)
(* rename delay (100ms) and the download timeout are shorter than a tick   *)
(* and are steps that other processes may interleave with.                 *)
(***************************************************************************)
EXTENDS Integers, Sequences, FiniteSets, TLC

\* ------------------------------------------------------------------ bounds
\* The clock runs from 0 to MaxTime.
MaxTime == 1
\* The longest line of the systematic part of Lines, and the number of
\* counts after which the scan loop of SpecLines stops.
MaxLen == 4
MaxCount == 2
\* The largest Content-Length of a response, the most bytes one Read of
\* the wrapped reader delivers, and the bytes after which a body ends.
MaxTotal == 3
MaxRead == 2
MaxCurr == 4
\* Config.CacheTTL (flag -cache-ttl), in hours.
CacheTTL == 2

\* ------------------------------------------------------ program constants
MaxRetries == 3
RenameAttempts == 5
LockStaleTTL == 1
ShortCacheWindow == 1

Procs == {"p1", "p2"}

\* ----------------------------------------------------------- Go strings
\* A Go string is a sequence of text fragments (single characters in the
\* lines of a body); "" is <<>>. BadByte is a byte that is not valid UTF-8,
\* ReplacementChar is U+FFFD.
BadByte == "\\xff"
ReplacementChar == "\\ufffd"

IsSpace(c) == c \in {" ", "\t"}

RECURSIVE TrimLeft(_)
TrimLeft(s) == IF s # <<>> /\ IsSpace(Head(s)) THEN TrimLeft(Tail(s)) ELSE s

RECURSIVE TrimRight(_)
TrimRight(s) ==
  IF s # <<>> /\ IsSpace(s[Len(s)]) THEN TrimRight(SubSeq(s, 1, Len(s) - 1)) ELSE s

\* strings.TrimSpace
TrimSpace(s) == TrimRight(TrimLeft(s))

\* strings.HasPrefix
HasPrefix(s, pre) == Len(s) >= Len(pre) /\ SubSeq(s, 1, Len(pre)) = pre

\* strings.Index for a one-character separator: 0-based, -1 when absent.
Index(s, c) ==
  IF \E k \in 1..Len(s) : s[k] = c
  THEN (CHOOSE k \in 1..Len(s) : s[k] = c /\ \A j \in 1..(k - 1) : s[j] # c) - 1
  ELSE -1

\* strings.Split for a one-character separator.
RECURSIVE Split(_, _)
Split(s, c) ==
  LET idx == Index(s, c)
  IN IF idx = -1 THEN <<s>>
     ELSE <<SubSeq(s, 1, idx)>> \o Split(SubSeq(s, idx + 2, Len(s)), c)

\* ProcessLine: the counts map after one line. A map is a function from the
\* names it holds to their counts.
EmptyMap == [n \in {} |-> 0]

Incr(m, name) ==
  IF name \in DOMAIN m THEN [m EXCEPT ![name] = @ + 1]
  ELSE [n \in DOMAIN m \cup {name} |-> IF n = name THEN 1 ELSE m[n]]

RECURSIVE AddPkgs(_, _)
AddPkgs(pkgs, m) ==
  IF pkgs = <<>> THEN m
  ELSE LET pkg == TrimSpace(Head(pkgs))
       IN AddPkgs(Tail(pkgs), IF pkg # <<>> THEN Incr(m, pkg) ELSE m)

\* A faulty ProcessLine, to show that C20 depends on the header test: a
\* line that starts with FILE is counted like any other.
ProcessLineCountsHeader(line0, m) ==
  LET ln == TrimSpace(line0)
      idx == Index(ln, " ")
  IN IF ln = <<>> THEN m
     ELSE IF idx = -1 THEN m
     ELSE AddPkgs(Split(TrimSpace(SubSeq(ln, idx + 2, Len(ln))), ","), m)

ProcessLine(line0, m) ==
  LET ln == TrimSpace(line0)
      idx == Index(ln, " ")
  IN IF ln = <<>> \/ HasPrefix(ln, <<"F", "I", "L", "E">>) THEN m
     ELSE IF idx = -1 THEN m
     ELSE AddPkgs(Split(TrimSpace(SubSeq(ln, idx + 2, Len(ln))), ","), m)

RECURSIVE ScanLines(_, _)
ScanLines(lines, m) ==
  IF lines = <<>> THEN m ELSE ScanLines(Tail(lines), ProcessLine(Head(lines), m))

\* SortMap: one item per entry, by FileCount descending. The map is
\* iterated in random order and sort.Slice is not stable, so entries with
\* equal counts come out in any order: the set of the possible results.
RECURSIVE Orderings(_)
Orderings(S) ==
  IF S = {} THEN {<<>>}
  ELSE UNION {{<<x>> \o t : t \in Orderings(S \ {x})} : x \in S}

SortMap(m) ==
  {s \in Orderings({[Name |-> n, FileCount |-> m[n]] : n \in DOMAIN m}) :
     \A k \in 1..(Len(s) - 1) : s[k].FileCount >= s[k + 1].FileCount}

\* ------------------------------------------------- the remote's answers
\* Decompressed bodies of Contents-<arch>.gz the remote may serve; Body0
\* has the header line and no line that names a package.
Body0 == << <<"F", "I", "L", "E", " ", "L">> >>
Body1 == << <<"F", "I", "L", "E", " ", "L">>,
            <<"f", " ", "a", ",", "b">>,
            <<"g", " ", "a">> >>
Body2 == << <<"h", " ", "c">> >>
\* A response body: lines behind a gzip stream, or bytes that are no gzip
\* stream (none at all, for one).
Gzip(lines) == [gzip |-> TRUE, lines |-> lines]
NoBody == [gzip |-> FALSE, lines |-> <<>>]
Bodies == {Gzip(Body0), Gzip(Body1), Gzip(Body2)}

\* (ETag, Last-Modified) pairs a response may carry.
TokenPairs == {<< <<>>, <<>> >>, << <<"v1">>, <<"m1">> >>, << <<"v1">>, <<"m2">> >>}

\* ------------------------------------------------------- cache records
\* a.cfg.Architecture and fmt.Sprintf(BaseURL, a.cfg.Architecture)
Architecture == <<"amd64">>
URL == <<"http://ftp.uk.debian.org/debian/dists/stable/main/Contents-amd64.gz">>

\* A nil *CacheEntry, a nil slice of stats, a nil error.
Nil == [nil |-> TRUE]

CacheEntry(arch, stats, ts, etag, lastMod, url, sum) ==
  [Architecture |-> arch, Stats |-> stats, Timestamp |-> ts, ETag |-> etag,
   LastModified |-> lastMod, URL |-> url, Checksum |-> sum]

\* The zero time.Time (year 1): further in the past than any TTL.
ZeroTime == -1000

\* encoding/json coerces strings to valid UTF-8: every invalid byte becomes
\* U+FFFD.
CoerceUTF8(s) == [k \in 1..Len(s) |-> IF s[k] = BadByte THEN ReplacementChar ELSE s[k]]

\* json.Marshal(entry.Stats)
MarshalStats(stats) ==
  [k \in 1..Len(stats) |->
     [name |-> CoerceUTF8(stats[k].Name), file_count |-> stats[k].FileCount]]

\* fmt.Sprintf("%x", md5.Sum(data)); "" is <<>>.
Md5Hex(data) == <<"md5", data>>

\* The members of the JSON object json.Encoder writes for an entry: the
\* struct tags name the keys, omitempty drops an empty etag, last_modified
\* and checksum, time.Time is written as RFC 3339 text.
Restrict(f, S) == [k \in S |-> f[k]]

\* A faulty encoder, to show that the round trip depends on MarshalEntry:
\* it leaves out the etag and last_modified members.
MarshalEntryOmitsTokens(e) ==
  LET all == [architecture |-> CoerceUTF8(e.Architecture),
              stats |-> MarshalStats(e.Stats),
              timestamp |-> [rfc3339 |-> e.Timestamp],
              url |-> CoerceUTF8(e.URL),
              checksum |-> e.Checksum]
      omitted == {k \in {"checksum"} : all[k] = <<>>}
  IN [form |-> "object", members |-> Restrict(all, DOMAIN all \ omitted)]

MarshalEntry(e) ==
  LET all == [architecture |-> CoerceUTF8(e.Architecture),
              stats |-> MarshalStats(e.Stats),
              timestamp |-> [rfc3339 |-> e.Timestamp],
              etag |-> CoerceUTF8(e.ETag),
              last_modified |-> CoerceUTF8(e.LastModified),
              url |-> CoerceUTF8(e.URL),
              checksum |-> e.Checksum]
      omitted == {k \in {"etag", "last_modified", "checksum"} : all[k] = <<>>}
  IN [form |-> "object", members |-> Restrict(all, DOMAIN all \ omitted)]

\* File contents: a JSON object, text that is no JSON ("invalid json"), or
\* no bytes at all (a file just created or truncated).
Garbage == [form |-> "garbage"]
Empty == [form |-> "empty"]

\* json.Unmarshal(data, &entry): ok is FALSE for an error; a key the object
\* lacks leaves the field at its zero value.
UnmarshalEntry(data) ==
  IF data.form # "object" THEN [ok |-> FALSE, entry |-> Nil]
  ELSE LET m == data.members
           Get(k, zero) == IF k \in DOMAIN m THEN m[k] ELSE zero
       IN [ok |-> TRUE,
           entry |-> CacheEntry(
             Get("architecture", <<>>),
             LET st == Get("stats", <<>>)
             IN [k \in 1..Len(st) |-> [Name |-> st[k].name, FileCount |-> st[k].file_count]],
             IF "timestamp" \in DOMAIN m THEN m["timestamp"].rfc3339 ELSE ZeroTime,
             Get("etag", <<>>),
             Get("last_modified", <<>>),
             Get("url", <<>>),
             Get("checksum", <<>>))]

\* A faulty LoadCache, to show that C11 depends on the strict comparison: a
\* record exactly ttl old counts as expired.
LoadCacheExpiresAtTTL(present, data, t, ttl) ==
  IF ~present THEN [entry |-> Nil, err |-> "not found", remove |-> FALSE]
  ELSE LET u == UnmarshalEntry(data)
       IN IF ~u.ok
          THEN [entry |-> Nil, err |-> "corrupt cache removed", remove |-> TRUE]
          ELSE IF t - u.entry.Timestamp >= ttl
          THEN [entry |-> Nil, err |-> "cache expired", remove |-> FALSE]
          ELSE [entry |-> u.entry, err |-> "", remove |-> FALSE]

\* LoadCache as a function of what is at the path (present, data), the time
\* of the call and ttl: the entry returned (Nil with an error), the error,
\* and whether the file is removed.
LoadCache(present, data, t, ttl) ==
  IF ~present THEN [entry |-> Nil, err |-> "not found", remove |-> FALSE]
  ELSE LET u == UnmarshalEntry(data)
       IN IF ~u.ok
          THEN [entry |-> Nil, err |-> "corrupt cache removed", remove |-> TRUE]
          ELSE IF t - u.entry.Timestamp > ttl
          THEN [entry |-> Nil, err |-> "cache expired", remove |-> FALSE]
          ELSE [entry |-> u.entry, err |-> "", remove |-> FALSE]

\* SaveCache sets entry.Checksum before it writes the entry.
WithChecksum(e) == [e EXCEPT !.Checksum = Md5Hex(MarshalStats(e.Stats))]

\* ------------------------------------------------------------- the state
VARIABLES
  pr,         \* the ProgressReader of Download: Total, Curr, and what its last
              \* Read got from the wrapped reader, rendered and returned
  line,       \* the line the scanner of Download holds (scanner.Text())
  counts,     \* the counts map of Download, which ProcessLine updates
  inserted,   \* the keys of counts in the order of their first m[pkg]++
  sortedStats, \* [done, stats]: whether SortMap has run, and its result
  scn,        \* the scenario: who runs, what the remote may answer
  started,    \* invocations started so far
  now,        \* the wall clock, in hours
  lockFile,   \* the marker <cacheFile>.lock: [ino, mtime], ino 0 when absent
  cacheFile,  \* the inode at the cache path, 0 when absent
  tmpFile,    \* the inode at <cacheFile>.tmp, 0 when absent
  disk,       \* the content of each inode of the cache directory
  pc,         \* where each process is in AnalyzeWithCache
  cfg,        \* a.cfg of each process
  ctxErr,     \* ctx.Err() of the context of each invocation
  flk,        \* the *flock.Flock of each process: [fh, locked]
  cached,     \* the local cached of AnalyzeWithCache
  loc,        \* the other locals of AnalyzeWithCache, Download and SaveCache
  ret,        \* what AnalyzeWithCache returns: [stats, err]
  hist        \* what the invocation did: requests sent and the conditional
              \* headers of the last one, the waits between the GET requests
              \* (in seconds), writes, return path

vars == <<pr, line, counts, inserted, sortedStats, scn, started, now, lockFile, cacheFile, tmpFile, disk, pc, cfg, ctxErr, flk,
          cached, loc, ret, hist>>

NoMarker == [ino |-> 0, mtime |-> 0]
NotSorted == [done |-> FALSE, stats |-> <<>>]

\* No bar was rendered; no Read was called.
NoBar == [kind |-> "none", filled |-> 0, empty |-> 0]
NoRead == [n |-> 0, err |-> ""]
NoReader ==
  [Total |-> 0, Curr |-> 0, sum |-> 0, got |-> NoRead, returned |-> NoRead, bar |-> NoBar,
   panicked |-> FALSE]
LockInodes == 1..(Cardinality(Procs) + 1)
DiskInodes == 1..(Cardinality(Procs) + 2)

\* a.cfg: ForceRefresh and ShortCacheWindow. DownloadTimeout is not kept:
\* the deadline of a positive one may pass at any step of the download, 0
\* is the case in which it does not.
Configs == [ForceRefresh : BOOLEAN, ShortCacheWindow : {0, ShortCacheWindow}]

NoLocals ==
  [tries |-> 0, i |-> 0, headResp |-> Nil, resp |-> Nil, entry |-> Nil,
   out |-> 0, renames |-> 0]
NoHist ==
  [head |-> 0, get |-> 0, cond |-> {}, waits |-> <<>>, getErr |-> "", loadErr |-> "",
   saved |-> FALSE, via |-> ""]
NoFlock == [fh |-> 0, locked |-> FALSE]
NoConfig == [ForceRefresh |-> FALSE, ShortCacheWindow |-> 0]

Set(f, p, v) == [f EXCEPT ![p] = v]

\* Records a cache file may hold when the processes start: written by an
\* earlier run from Body1, fresh, at the trust window, or expired.
InitStats == CHOOSE s \in SortMap(ScanLines(Body1, EmptyMap)) : TRUE
InitEntries ==
  {WithChecksum(CacheEntry(Architecture, InitStats, ts, tok[1], tok[2], URL, <<>>)) :
     ts \in {0, 0 - ShortCacheWindow, 0 - (CacheTTL + 1)},
     tok \in {<< <<>>, <<>> >>, << <<"v1">>, <<"m1">> >>}}

\* Answers to the HEAD request: a transport error, or a status with the
\* ETag and Last-Modified headers.
Response(status, tok, body) ==
  [err |-> "", status |-> status, etag |-> tok[1], lastMod |-> tok[2], body |-> body]
TransportError == [err |-> "transport error"]
NoTokens == << <<>>, <<>> >>
HeadResponses ==
  {TransportError, Response(304, NoTokens, NoBody), Response(500, NoTokens, NoBody)}
    \cup {Response(200, tok, NoBody) : tok \in TokenPairs}

\* Answers to the GET request.
GetResponses ==
  {TransportError, Response(304, NoTokens, NoBody), Response(404, NoTokens, NoBody),
   Response(500, NoTokens, NoBody)}
    \cup {Response(200, tok, b) : tok \in TokenPairs, b \in Bodies \cup {NoBody}}

\* The scenarios of Spec. Alone: one process runs two invocations one after the
\* other, with every configuration, every answer of the remote and every
\* initial cache file. Together: two processes run one invocation each, at
\* the same time, with the default configuration and fewer answers.
Alone ==
  [procs |-> {"p1"}, runs |-> 2, cfgs |-> Configs,
   head |-> HeadResponses, get |-> GetResponses,
   caches |-> {Empty, Garbage} \cup {MarshalEntry(e) : e \in InitEntries}]
Together ==
  [procs |-> Procs, runs |-> 2,
   cfgs |-> {[ForceRefresh |-> FALSE, ShortCacheWindow |-> ShortCacheWindow]},
   head |-> {TransportError, Response(200, << <<"v1">>, <<"m1">> >>, NoBody)},
   get |-> {TransportError, Response(404, NoTokens, NoBody),
            Response(200, << <<"v1">>, <<"m1">> >>, Gzip(Body2))},
   caches |-> {Empty} \cup {MarshalEntry(e) : e \in
                 {x \in InitEntries : x.Timestamp = 0 - ShortCacheWindow /\ x.ETag # <<>>}}]
\* Changed: the remote has new content, Body2, since the records of
\* InitEntries were captured from Body1, and answers every request with
\* 200; its validators are new ones, or it sends none.
ChangedTokens == {NoTokens, << <<"v1">>, <<"m2">> >>}
Changed ==
  [procs |-> {"p1"}, runs |-> 2,
   cfgs |-> {[ForceRefresh |-> FALSE, ShortCacheWindow |-> ShortCacheWindow]},
   head |-> {Response(200, tok, NoBody) : tok \in ChangedTokens},
   get |-> {Response(200, tok, Gzip(Body2)) : tok \in ChangedTokens},
   caches |-> {MarshalEntry(e) : e \in InitEntries}]
Scenarios == {Alone, Together, Changed}

Init ==
  /\ scn \in Scenarios
  /\ line = <<>> /\ counts = EmptyMap /\ inserted = <<>> /\ sortedStats = NotSorted
  /\ pr = NoReader
  /\ started = 0
  /\ now = 0
  /\ lockFile \in {NoMarker, [ino |-> 1, mtime |-> 0 - LockStaleTTL]}
  /\ tmpFile = 0
  /\ \E c \in scn.caches :
       /\ cacheFile = IF c = Empty THEN 0 ELSE 1
       /\ disk = [k \in DiskInodes |-> IF k = 1 THEN c ELSE Empty]
  /\ pc = [p \in Procs |-> "idle"]
  /\ cfg = [p \in Procs |-> NoConfig]
  /\ ctxErr = [p \in Procs |-> ""]
  /\ flk = [p \in Procs |-> NoFlock]
  /\ cached = [p \in Procs |-> Nil]
  /\ loc = [p \in Procs |-> NoLocals]
  /\ ret = [p \in Procs |-> Nil]
  /\ hist = [p \in Procs |-> NoHist]

\* The inodes nothing names any more lose their content.
Collect(d, cf, tf, l) ==
  [k \in DiskInodes |->
     IF k = cf \/ k = tf \/ \E q \in Procs : l[q].out = k THEN d[k] ELSE Empty]

FreshDiskInode ==
  CHOOSE k \in DiskInodes :
    /\ k # cacheFile /\ k # tmpFile /\ \A q \in Procs : loc[q].out # k
    /\ \A j \in 1..(k - 1) : j = cacheFile \/ j = tmpFile \/ \E q \in Procs : loc[q].out = j

FreshLockInode ==
  CHOOSE k \in LockInodes :
    /\ k # lockFile.ino /\ \A q \in Procs : flk[q].fh # k
    /\ \A j \in 1..(k - 1) : j = lockFile.ino \/ \E q \in Procs : flk[q].fh = j

\* ---------------------------------------------------------- environment
Tick ==
  /\ now < MaxTime
  /\ now' = now + 1
  /\ UNCHANGED <<pr, line, counts, inserted, sortedStats, scn, started, lockFile, cacheFile, tmpFile, disk, pc, cfg,
                 ctxErr, flk, cached, loc, ret, hist>>

\* The places where the code looks at its context.
CtxPoints == {"lock_wait", "head", "get", "backoff", "scan"}
DownloadPoints == {"head", "get", "backoff", "scan"}

\* The caller cancels ctx (SIGINT). A cancellation takes effect where the
\* code next looks at ctx, so it is taken there.
Cancel(p) ==
  /\ pc[p] \in CtxPoints /\ ctxErr[p] = ""
  /\ ctxErr' = Set(ctxErr, p, "context canceled")
  /\ UNCHANGED <<pr, line, counts, inserted, sortedStats, scn, started, now, lockFile, cacheFile, tmpFile, disk, pc, cfg, flk, cached,
                 loc, ret, hist>>

\* The deadline of downloadCtx (context.WithTimeout) passes.
DeadlineExceeded(p) ==
  /\ pc[p] \in DownloadPoints /\ ctxErr[p] = ""
  /\ ctxErr' = Set(ctxErr, p, "context deadline exceeded")
  /\ UNCHANGED <<pr, line, counts, inserted, sortedStats, scn, started, now, lockFile, cacheFile, tmpFile, disk, pc, cfg, flk, cached,
                 loc, ret, hist>>

\* A process starts AnalyzeWithCache with some configuration.
Start(p) ==
  /\ p \in scn.procs /\ pc[p] \in {"idle", "done"} /\ started < scn.runs
  /\ started' = started + 1
  /\ \E c \in scn.cfgs : cfg' = Set(cfg, p, c)
  /\ pc' = Set(pc, p, "cleanup")
  /\ ret' = Set(ret, p, Nil)
  /\ UNCHANGED <<pr, line, counts, inserted, sortedStats, scn, now, lockFile, cacheFile, tmpFile, disk, ctxErr, flk,
                 cached, loc, hist>>

\* ------------------------------------------------------ the lock marker
\* CleanupStaleLock: os.Stat of the marker, then os.Remove by path when the
\* modification time is older than ttl.
CleanupStat(p) ==
  /\ pc[p] = "cleanup"
  /\ pc' = Set(pc, p, IF lockFile.ino # 0 /\ now - lockFile.mtime > LockStaleTTL
                      THEN "cleanup_rm" ELSE "open")
  /\ UNCHANGED <<pr, line, counts, inserted, sortedStats, scn, started, now, lockFile, cacheFile, tmpFile, disk, cfg, ctxErr, flk,
                 cached, loc, ret, hist>>

CleanupRemove(p) ==
  /\ pc[p] = "cleanup_rm"
  /\ lockFile' = NoMarker
  /\ pc' = Set(pc, p, "open")
  /\ UNCHANGED <<pr, line, counts, inserted, sortedStats, scn, started, now, cacheFile, tmpFile, disk, cfg, ctxErr, flk, cached, loc,
                 ret, hist>>

CleanupStaleLock(p) == CleanupStat(p) \/ CleanupRemove(p)

\* flock.TryLock, first half: open(path, O_CREATE|O_RDONLY). An existing
\* marker is opened as it is (its modification time stays), a missing one
\* is created.
FlockOpen(p) ==
  /\ pc[p] = "open"
  /\ IF lockFile.ino = 0
     THEN /\ lockFile' = [ino |-> FreshLockInode, mtime |-> now]
          /\ flk' = Set(flk, p, [fh |-> FreshLockInode, locked |-> FALSE])
     ELSE /\ flk' = Set(flk, p, [fh |-> lockFile.ino, locked |-> FALSE])
          /\ UNCHANGED lockFile
  /\ pc' = Set(pc, p, "flock")
  /\ UNCHANGED <<pr, line, counts, inserted, sortedStats, scn, started, now, cacheFile, tmpFile, disk, cfg, ctxErr, cached, loc, ret,
                 hist>>

\* A lock that is the marker file itself, to show that C17 depends on the
\* flock of a dead process being gone: a marker another run left counts as
\* held.
HeldByOtherOrMarker(p) ==
  \/ \E q \in Procs \ {p} : flk[q].locked /\ flk[q].fh = flk[p].fh
  \/ lockFile.ino # 0 /\ lockFile.mtime < now /\ \A q \in Procs : ~flk[q].locked

\* The inode of p's descriptor is locked by another descriptor.
HeldByOther(p) ==
  \E q \in Procs \ {p} : flk[q].locked /\ flk[q].fh = flk[p].fh

\* A faulty AcquireLockWithContext, to show what C16 excludes: neither a
\* handle nor an error, and AnalyzeWithCache goes on without the lock.
LockFailedWithoutError(p, err) ==
  /\ pc' = Set(pc, p, "load")
  /\ UNCHANGED <<ret, cfg, ctxErr>>
  /\ loc' = Set(loc, p, NoLocals)

\* AcquireLockWithContext fails and AnalyzeWithCache returns its error; no
\* release is deferred yet.
LockFailed(p, err) ==
  /\ pc' = Set(pc, p, "done")
  /\ ret' = Set(ret, p, [stats |-> Nil, err |-> err])
  /\ cfg' = Set(cfg, p, NoConfig)
  /\ ctxErr' = Set(ctxErr, p, "")
  /\ loc' = Set(loc, p, NoLocals)

\* flock.TryLock, second half: flock(fd, LOCK_EX|LOCK_NB). On EWOULDBLOCK
\* the descriptor is closed. AcquireLockWithContext tries once, then
\* TryLockContext tries at once again and then after each retry delay; the
\* delay equals the timeout of lockCtx, so a third try is the last.
FlockTry(p) ==
  /\ pc[p] = "flock"
  /\ IF ~HeldByOther(p)
     THEN /\ flk' = Set(flk, p, [flk[p] EXCEPT !.locked = TRUE])
          /\ pc' = Set(pc, p, "load")
          /\ UNCHANGED <<cfg, ctxErr, loc, ret>>
     ELSE /\ flk' = Set(flk, p, NoFlock)
          /\ IF loc[p].tries < 2
             THEN /\ loc' = Set(loc, p, [loc[p] EXCEPT !.tries = @ + 1])
                  /\ pc' = Set(pc, p, IF loc[p].tries = 0 THEN "open" ELSE "lock_wait")
                  /\ UNCHANGED <<cfg, ctxErr, ret>>
             ELSE LockFailed(p, "context deadline exceeded")
  /\ UNCHANGED <<pr, line, counts, inserted, sortedStats, scn, started, now, lockFile, cacheFile, tmpFile, disk, cached, hist>>

\* TryLockContext between two tries: select on lockCtx.Done() and the retry
\* timer. Both fire after LockTimeout, so either may win; a cancelled caller
\* context wins before.
LockWait(p) ==
  /\ pc[p] = "lock_wait"
  /\ \E timer \in (IF ctxErr[p] = "" THEN BOOLEAN ELSE {FALSE}) :
       IF timer
       THEN pc' = Set(pc, p, "open") /\ UNCHANGED <<cfg, ctxErr, loc, ret>>
       ELSE LockFailed(p, IF ctxErr[p] = "" THEN "context deadline exceeded" ELSE ctxErr[p])
  /\ UNCHANGED <<pr, line, counts, inserted, sortedStats, scn, started, now, lockFile, cacheFile, tmpFile, disk, flk, cached, hist>>

AcquireLockWithContext(p) == FlockOpen(p) \/ FlockTry(p) \/ LockWait(p)

\* ReleaseLock (deferred): f.Unlock() unlocks and closes the descriptor,
\* then os.Remove(file) unlinks whatever the marker path names.
FlockUnlock(p) ==
  /\ pc[p] = "unlock"
  /\ flk' = Set(flk, p, NoFlock)
  /\ pc' = Set(pc, p, "unlink")
  /\ UNCHANGED <<pr, line, counts, inserted, sortedStats, scn, started, now, lockFile, cacheFile, tmpFile, disk, cfg, ctxErr, cached,
                 loc, ret, hist>>

\* A faulty release, to show that C2 depends on os.Remove(file): the marker
\* stays.
RemoveMarkerKeepsFile(p) ==
  /\ pc[p] = "unlink"
  /\ pc' = Set(pc, p, "done")
  /\ cfg' = Set(cfg, p, NoConfig)
  /\ ctxErr' = Set(ctxErr, p, "")
  /\ cached' = Set(cached, p, Nil)
  /\ loc' = Set(loc, p, NoLocals)
  /\ hist' = Set(hist, p, NoHist)
  /\ UNCHANGED <<pr, line, counts, inserted, sortedStats, scn, started, now, lockFile, cacheFile, tmpFile, disk, flk, ret>>

\* With this step AnalyzeWithCache is back in its caller: its frame is gone.
RemoveMarker(p) ==
  /\ pc[p] = "unlink"
  /\ lockFile' = NoMarker
  /\ pc' = Set(pc, p, "done")
  /\ cfg' = Set(cfg, p, NoConfig)
  /\ ctxErr' = Set(ctxErr, p, "")
  /\ cached' = Set(cached, p, Nil)
  /\ loc' = Set(loc, p, NoLocals)
  /\ hist' = Set(hist, p, NoHist)
  /\ UNCHANGED <<pr, line, counts, inserted, sortedStats, scn, started, now, cacheFile, tmpFile, disk, flk, ret>>

ReleaseLock(p) == FlockUnlock(p) \/ RemoveMarker(p)

\* --------------------------------------------------------- loading
\* A faulty AnalyzeWithCache, to show that C19 depends on the test of
\* ForceRefresh: the record is loaded in any case.
LoadStepIgnoresForce(p) ==
  /\ pc[p] = "load"
  /\ LET r == LoadCache(cacheFile # 0, IF cacheFile # 0 THEN disk[cacheFile] ELSE Empty,
                        now, CacheTTL)
     IN /\ cached' = Set(cached, p, r.entry)
        /\ hist' = Set(hist, p, [hist[p] EXCEPT !.loadErr = r.err])
        /\ pc' = Set(pc, p, IF r.remove THEN "load_rm" ELSE "window")
  /\ UNCHANGED <<pr, line, counts, inserted, sortedStats, scn, started, now, lockFile, cacheFile, tmpFile, disk, cfg, ctxErr, flk, loc,
                 ret>>

\* AnalyzeWithCache after the lock: with ForceRefresh nothing is loaded;
\* otherwise LoadCache reads the file (os.ReadFile) and decides.
LoadStep(p) ==
  /\ pc[p] = "load"
  /\ IF cfg[p].ForceRefresh
     THEN /\ cached' = Set(cached, p, Nil)
          /\ pc' = Set(pc, p, "window")
          /\ UNCHANGED hist
     ELSE LET r == LoadCache(cacheFile # 0, IF cacheFile # 0 THEN disk[cacheFile] ELSE Empty,
                             now, CacheTTL)
          IN /\ cached' = Set(cached, p, r.entry)
             /\ hist' = Set(hist, p, [hist[p] EXCEPT !.loadErr = r.err])
             /\ pc' = Set(pc, p, IF r.remove THEN "load_rm" ELSE "window")
  /\ UNCHANGED <<pr, line, counts, inserted, sortedStats, scn, started, now, lockFile, cacheFile, tmpFile, disk, cfg, ctxErr, flk, loc,
                 ret>>

\* A faulty LoadCache, to show that C10 depends on os.Remove(file): the
\* corrupt file stays.
LoadRemoveSkipped(p) ==
  /\ pc[p] = "load_rm"
  /\ pc' = Set(pc, p, "window")
  /\ UNCHANGED <<pr, line, counts, inserted, sortedStats, scn, started, now, lockFile, cacheFile, tmpFile, disk, cfg, ctxErr, flk,
                 cached, loc, ret, hist>>

\* LoadCache on a corrupt file: os.Remove(file) unlinks what the cache path
\* names now.
LoadRemove(p) ==
  /\ pc[p] = "load_rm"
  /\ cacheFile' = 0
  /\ disk' = Collect(disk, 0, tmpFile, loc)
  /\ pc' = Set(pc, p, "window")
  /\ UNCHANGED <<pr, line, counts, inserted, sortedStats, scn, started, now, lockFile, tmpFile, cfg, ctxErr, flk, cached, loc, ret,
                 hist>>

\* A faulty trust window, to show that C8 depends on the strict comparison:
\* a record exactly ShortCacheWindow old is returned too.
TrustWindowInclusive(p) ==
  /\ pc[p] = "window"
  /\ IF /\ cached[p] # Nil
        /\ cfg[p].ShortCacheWindow > 0
        /\ now - cached[p].Timestamp <= cfg[p].ShortCacheWindow
     THEN /\ ret' = Set(ret, p, [stats |-> cached[p].Stats, err |-> ""])
          /\ hist' = Set(hist, p, [hist[p] EXCEPT !.via = "trust"])
          /\ pc' = Set(pc, p, "unlock")
     ELSE /\ pc' = Set(pc, p, "head")
          /\ UNCHANGED <<ret, hist>>
  /\ UNCHANGED <<pr, line, counts, inserted, sortedStats, scn, started, now, lockFile, cacheFile, tmpFile, disk, cfg, ctxErr, flk,
                 cached, loc>>

\* The trust window: a record younger than ShortCacheWindow is returned with
\* no request.
TrustWindow(p) ==
  /\ pc[p] = "window"
  /\ IF /\ cached[p] # Nil
        /\ cfg[p].ShortCacheWindow > 0
        /\ now - cached[p].Timestamp < cfg[p].ShortCacheWindow
     THEN /\ ret' = Set(ret, p, [stats |-> cached[p].Stats, err |-> ""])
          /\ hist' = Set(hist, p, [hist[p] EXCEPT !.via = "trust"])
          /\ pc' = Set(pc, p, "unlock")
     ELSE /\ pc' = Set(pc, p, "head")
          /\ UNCHANGED <<ret, hist>>
  /\ UNCHANGED <<pr, line, counts, inserted, sortedStats, scn, started, now, lockFile, cacheFile, tmpFile, disk, cfg, ctxErr, flk,
                 cached, loc>>

\* --------------------------------------------------------- downloading
\* A faulty AnalyzeWithCache, to show that C13 depends on the fallback: an
\* error of Download is returned whether or not a record is held.
AfterDownloadNoFallback(p, stats, etag, lastMod, err, l, h) ==
  IF err # ""
  THEN /\ ret' = Set(ret, p, [stats |-> Nil, err |-> err])
       /\ hist' = Set(hist, p, [h EXCEPT !.via = "error"])
       /\ loc' = Set(loc, p, l)
       /\ pc' = Set(pc, p, "unlock")
  ELSE /\ loc' = Set(loc, p, [l EXCEPT !.entry =
                  CacheEntry(Architecture, stats, now, etag, lastMod, URL, <<>>)])
       /\ hist' = Set(hist, p, h)
       /\ pc' = Set(pc, p, "save_create")
       /\ UNCHANGED ret

\* What AnalyzeWithCache does with the values Download returned: with an
\* error it returns the cached stats when it holds a record, else the
\* error; without one it builds the entry to save. l and h are the locals
\* and the history of the step so far.
AfterDownload(p, stats, etag, lastMod, err, l, h) ==
  IF err # "" /\ cached[p] # Nil
  THEN /\ ret' = Set(ret, p, [stats |-> cached[p].Stats, err |-> ""])
       /\ hist' = Set(hist, p, [h EXCEPT !.via = "stale"])
       /\ loc' = Set(loc, p, l)
       /\ pc' = Set(pc, p, "unlock")
  ELSE IF err # ""
  THEN /\ ret' = Set(ret, p, [stats |-> Nil, err |-> err])
       /\ hist' = Set(hist, p, [h EXCEPT !.via = "error"])
       /\ loc' = Set(loc, p, l)
       /\ pc' = Set(pc, p, "unlock")
  ELSE /\ loc' = Set(loc, p, [l EXCEPT !.entry =
                  CacheEntry(Architecture, stats, now, etag, lastMod, URL, <<>>)])
       /\ hist' = Set(hist, p, h)
       /\ pc' = Set(pc, p, "save_create")
       /\ UNCHANGED ret

\* Download returning the cached values (lines 29, 41 and 58).
ReturnCached(p, l, h) ==
  AfterDownload(p, cached[p].Stats, cached[p].ETag, cached[p].LastModified, "", l, h)

\* A faulty Download, to show that C4 depends on the error being passed on:
\* without a record the failed fetch returns no items and no error.
GetFailedSilently(p, err, l, h) ==
  IF cached[p] # Nil
  THEN ReturnCached(p, l, [h EXCEPT !.getErr = err, !.via = "fallback"])
  ELSE AfterDownload(p, <<>>, <<>>, <<>>, "", l, [h EXCEPT !.getErr = err])

\* Download after GetRequestWithRetry failed with err: the cached values
\* and no error when it holds a record, else the error.
GetFailed(p, err, l, h) ==
  IF cached[p] # Nil
  THEN ReturnCached(p, l, [h EXCEPT !.getErr = err, !.via = "fallback"])
  ELSE AfterDownload(p, Nil, <<>>, <<>>, err, l, [h EXCEPT !.getErr = err])

\* A faulty probe check, to show that C5 depends on the 304 case: only
\* the tokens are compared.
UnchangedByTokens(c, r) ==
  c # Nil /\ r.etag = c.ETag /\ r.lastMod = c.LastModified

\* The errors of Download for a GET answer that is neither 200 nor 304:
\* fmt.Errorf with the url (and the status).
NotFoundErrorAnonymous(url) == "404: Requested Package Contents Not Found"
NotFoundError(url) == "404: Requested Package Contents Not Found: " \o url[1]
HTTPError(status, url) == "HTTP " \o ToString(status) \o " at " \o url[1]

\* The probe says the cached record is current.
Unchanged(c, r) ==
  c # Nil /\ (r.status = 304 \/ (r.etag = c.ETag /\ r.lastMod = c.LastModified))

\* The conditional headers HeadRequest and GetRequestWithRetry set on a
\* request: those of the tokens the cached record has.
ConditionalHeaders(c) ==
  IF c = Nil THEN {}
  ELSE {<<"If-None-Match", c.ETag>> : x \in {y \in {1} : c.ETag # <<>>}}
         \cup {<<"If-Modified-Since", c.LastModified>> :
                 x \in {y \in {1} : c.LastModified # <<>>}}

\* Download, step 1: HeadRequest; a done context makes client.Do fail.
HeadStep(p) ==
  /\ pc[p] = "head"
  /\ \E r \in (IF ctxErr[p] = "" THEN scn.head ELSE {[err |-> ctxErr[p]]}) :
       LET l == [loc[p] EXCEPT !.headResp = r]
           h == [hist[p] EXCEPT !.head = @ + 1, !.cond = ConditionalHeaders(cached[p])]
       IN IF r.err = "" /\ Unchanged(cached[p], r)
          THEN ReturnCached(p, l, [h EXCEPT !.via = "unchanged"])
          ELSE /\ loc' = Set(loc, p, l)
               /\ hist' = Set(hist, p, h)
               /\ pc' = Set(pc, p, "get")
               /\ UNCHANGED ret
  /\ UNCHANGED <<pr, line, counts, inserted, sortedStats, scn, started, now, lockFile, cacheFile, tmpFile, disk, cfg, ctxErr, flk,
                 cached>>

\* A faulty GetRequestWithRetry, to show what C24 excludes: an answer with
\* a 5xx status is retried like a transport failure.
GetStepRetriesServerError(p) ==
  /\ pc[p] = "get"
  /\ IF ctxErr[p] # ""
     THEN GetFailed(p, ctxErr[p], [loc[p] EXCEPT !.headResp = Nil], hist[p])
     ELSE \E r \in scn.get :
       LET l0 == [loc[p] EXCEPT !.headResp = Nil]
           l == [l0 EXCEPT !.resp = r]
           h == [hist[p] EXCEPT !.get = @ + 1, !.cond = ConditionalHeaders(cached[p])]
       IN IF r.err # "" \/ r.status >= 500
          THEN IF loc[p].i < MaxRetries - 1
               THEN /\ loc' = Set(loc, p, IF r.err # "" THEN l0 ELSE l)
                    /\ hist' = Set(hist, p, h)
                    /\ pc' = Set(pc, p, "backoff")
                    /\ UNCHANGED ret
               ELSE GetFailed(p, IF r.err # "" THEN r.err ELSE "server error", l0, h)
          ELSE IF r.status = 200
          THEN /\ loc' = Set(loc, p, l)
               /\ hist' = Set(hist, p, h)
               /\ pc' = Set(pc, p, "scan")
               /\ UNCHANGED ret
          ELSE IF r.status = 304
          THEN IF cached[p] # Nil
               THEN ReturnCached(p, l, [h EXCEPT !.via = "unchanged"])
               ELSE AfterDownload(p, Nil, <<>>, <<>>, "304 received but no cache", l, h)
          ELSE IF r.status = 404
          THEN AfterDownload(p, Nil, <<>>, <<>>, NotFoundError(URL), l, h)
          ELSE AfterDownload(p, Nil, <<>>, <<>>, HTTPError(r.status, URL), l, h)
  /\ UNCHANGED <<pr, line, counts, inserted, sortedStats, scn, started, now, lockFile, cacheFile, tmpFile, disk, cfg, ctxErr, flk,
                 cached>>

\* A faulty Download, to show what C26 excludes: a 304 answer without a
\* cached record counts as a download of no items.
GetStepAcceptsNotModified(p) ==
  /\ pc[p] = "get"
  /\ IF ctxErr[p] # ""
     THEN GetFailed(p, ctxErr[p], [loc[p] EXCEPT !.headResp = Nil], hist[p])
     ELSE \E r \in scn.get :
       LET l0 == [loc[p] EXCEPT !.headResp = Nil]
           l == [l0 EXCEPT !.resp = r]
           h == [hist[p] EXCEPT !.get = @ + 1, !.cond = ConditionalHeaders(cached[p])]
       IN IF r.err # ""
          THEN IF loc[p].i < MaxRetries - 1
               THEN /\ loc' = Set(loc, p, l0)
                    /\ hist' = Set(hist, p, h)
                    /\ pc' = Set(pc, p, "backoff")
                    /\ UNCHANGED ret
               ELSE GetFailed(p, r.err, l0, h)
          ELSE IF r.status = 200
          THEN /\ loc' = Set(loc, p, l)
               /\ hist' = Set(hist, p, h)
               /\ pc' = Set(pc, p, "scan")
               /\ UNCHANGED ret
          ELSE IF r.status = 304
          THEN IF cached[p] # Nil
               THEN ReturnCached(p, l, [h EXCEPT !.via = "unchanged"])
               ELSE AfterDownload(p, <<>>, <<>>, <<>>, "", l, h)
          ELSE IF r.status = 404
          THEN AfterDownload(p, Nil, <<>>, <<>>, NotFoundError(URL), l, h)
          ELSE AfterDownload(p, Nil, <<>>, <<>>, HTTPError(r.status, URL), l, h)
  /\ UNCHANGED <<pr, line, counts, inserted, sortedStats, scn, started, now, lockFile, cacheFile, tmpFile, disk, cfg, ctxErr, flk,
                 cached>>

\* GetRequestWithRetry, one turn of the loop, and the switch on the status
\* in Download.
GetStep(p) ==
  /\ pc[p] = "get"
  /\ IF ctxErr[p] # ""
     THEN GetFailed(p, ctxErr[p], [loc[p] EXCEPT !.headResp = Nil], hist[p])
     ELSE \E r \in scn.get :
       LET l0 == [loc[p] EXCEPT !.headResp = Nil]
           l == [l0 EXCEPT !.resp = r]
           h == [hist[p] EXCEPT !.get = @ + 1, !.cond = ConditionalHeaders(cached[p])]
       IN IF r.err # ""
          THEN IF loc[p].i < MaxRetries - 1
               THEN /\ loc' = Set(loc, p, l0)
                    /\ hist' = Set(hist, p, h)
                    /\ pc' = Set(pc, p, "backoff")
                    /\ UNCHANGED ret
               ELSE GetFailed(p, r.err, l0, h)
          ELSE IF r.status = 200
          THEN /\ loc' = Set(loc, p, l)
               /\ hist' = Set(hist, p, h)
               /\ pc' = Set(pc, p, "scan")
               /\ UNCHANGED ret
          ELSE IF r.status = 304
          THEN IF cached[p] # Nil
               THEN ReturnCached(p, l, [h EXCEPT !.via = "unchanged"])
               ELSE AfterDownload(p, Nil, <<>>, <<>>, "304 received but no cache", l, h)
          ELSE IF r.status = 404
          THEN AfterDownload(p, Nil, <<>>, <<>>, NotFoundError(URL), l, h)
          ELSE AfterDownload(p, Nil, <<>>, <<>>, HTTPError(r.status, URL), l, h)
  /\ UNCHANGED <<pr, line, counts, inserted, sortedStats, scn, started, now, lockFile, cacheFile, tmpFile, disk, cfg, ctxErr, flk,
                 cached>>

\* A faulty backoff, to show that C25 depends on the shift: one second
\* before every retry.
BackoffDelayConstant(i) == 1

\* time.Second * (1 << i), in seconds.
BackoffDelay(i) == 2 ^ i

\* GetRequestWithRetry between two attempts: select on ctx.Done() and the
\* backoff timer.
Backoff(p) ==
  /\ pc[p] = "backoff"
  /\ IF ctxErr[p] # ""
     THEN GetFailed(p, ctxErr[p], loc[p], hist[p])
     ELSE /\ loc' = Set(loc, p, [loc[p] EXCEPT !.i = @ + 1])
          /\ hist' = Set(hist, p, [hist[p] EXCEPT !.waits = Append(@, BackoffDelay(loc[p].i))])
          /\ pc' = Set(pc, p, "get")
          /\ UNCHANGED ret
  /\ UNCHANGED <<pr, line, counts, inserted, sortedStats, scn, started, now, lockFile, cacheFile, tmpFile, disk, cfg, ctxErr, flk,
                 cached>>

GetRequestWithRetry(p) == GetStep(p) \/ Backoff(p)

\* Download, the body of a 200 answer: gzip.NewReader, the scan of the
\* lines with ProcessLine, SortMap. The context is looked at before the
\* first line; the connection may break during the scan.
ScanStep(p) ==
  /\ pc[p] = "scan"
  /\ LET r == loc[p].resp
         l == [loc[p] EXCEPT !.resp = Nil]
     IN IF ~r.body.gzip
        THEN AfterDownload(p, Nil, <<>>, <<>>, "gzip: invalid header", l, hist[p])
        ELSE IF ctxErr[p] # ""
        THEN AfterDownload(p, Nil, <<>>, <<>>, ctxErr[p], l, hist[p])
        ELSE \E broken \in BOOLEAN :
          IF broken
          THEN AfterDownload(p, Nil, <<>>, <<>>, "unexpected EOF", l, hist[p])
          ELSE \E stats \in SortMap(ScanLines(r.body.lines, EmptyMap)) :
                 AfterDownload(p, stats, r.etag, r.lastMod, "", l,
                               [hist[p] EXCEPT !.via = "fresh"])
  /\ UNCHANGED <<pr, line, counts, inserted, sortedStats, scn, started, now, lockFile, cacheFile, tmpFile, disk, cfg, ctxErr, flk,
                 cached>>

Download(p) == HeadStep(p) \/ GetRequestWithRetry(p) \/ ScanStep(p)

\* --------------------------------------------------------- saving
\* SaveCache: the checksum, then os.Create(tmp): O_CREATE|O_TRUNC on the
\* fixed sibling path, which empties the inode a file of that name has.
\* When os.Create fails (no directory, no permission) SaveCache returns the
\* error before anything is deferred, and AnalyzeWithCache logs it and
\* returns the stats.
SaveCreate(p) ==
  /\ pc[p] = "save_create"
  /\ \E ok \in BOOLEAN :
       LET k == IF tmpFile # 0 THEN tmpFile ELSE FreshDiskInode
           l == [loc[p] EXCEPT !.entry = WithChecksum(@), !.out = IF ok THEN k ELSE 0,
                               !.headResp = Nil, !.resp = Nil]
       IN /\ loc' = Set(loc, p, l)
          /\ IF ok
             THEN /\ tmpFile' = k
                  /\ disk' = [disk EXCEPT ![k] = Empty]
                  /\ pc' = Set(pc, p, "save_write")
                  /\ UNCHANGED ret
             ELSE /\ ret' = Set(ret, p, [stats |-> loc[p].entry.Stats, err |-> ""])
                  /\ pc' = Set(pc, p, "unlock")
                  /\ UNCHANGED <<tmpFile, disk>>
  /\ UNCHANGED <<pr, line, counts, inserted, sortedStats, scn, started, now, lockFile, cacheFile, cfg, ctxErr, flk, cached, hist>>

\* enc.Encode(entry), out.Sync(), out.Close(): the bytes go to the inode of
\* the descriptor; a full disk makes one of them fail.
SaveWrite(p) ==
  /\ pc[p] = "save_write"
  /\ \E ok \in BOOLEAN :
       IF ok
       THEN /\ disk' = [disk EXCEPT ![loc[p].out] = MarshalEntry(loc[p].entry)]
            /\ pc' = Set(pc, p, "save_rename")
       ELSE /\ UNCHANGED disk
            /\ pc' = Set(pc, p, "save_defer")
  /\ UNCHANGED <<pr, line, counts, inserted, sortedStats, scn, started, now, lockFile, cacheFile, tmpFile, cfg, ctxErr, flk, cached,
                 loc, ret, hist>>

\* os.Rename(tmp, file), tried RenameAttempts times: it moves whatever the
\* tmp path names over the cache path, and fails when nothing has that name.
SaveRename(p) ==
  /\ pc[p] = "save_rename"
  /\ IF tmpFile # 0
     THEN /\ cacheFile' = tmpFile
          /\ tmpFile' = 0
          /\ disk' = Collect(disk, tmpFile, 0, loc)
          /\ hist' = Set(hist, p, [hist[p] EXCEPT !.saved = TRUE])
          /\ pc' = Set(pc, p, "save_defer")
          /\ UNCHANGED loc
     ELSE /\ loc' = Set(loc, p, [loc[p] EXCEPT !.renames = @ + 1])
          /\ pc' = Set(pc, p, IF loc[p].renames + 1 = RenameAttempts
                              THEN "save_defer" ELSE "save_rename")
          /\ UNCHANGED <<cacheFile, tmpFile, disk, hist>>
  /\ UNCHANGED <<pr, line, counts, inserted, sortedStats, scn, started, now, lockFile, cfg, ctxErr, flk, cached, ret>>

\* A faulty SaveCache, to show that C28 depends on the deferred
\* os.Remove(tmp): the temporary file stays.
SaveDeferKeepsTmp(p) ==
  /\ pc[p] = "save_defer"
  /\ LET l == [loc[p] EXCEPT !.out = 0, !.renames = 0]
     IN /\ UNCHANGED tmpFile
        /\ disk' = Collect(disk, cacheFile, tmpFile, Set(loc, p, l))
        /\ loc' = Set(loc, p, l)
  /\ ret' = Set(ret, p, [stats |-> loc[p].entry.Stats, err |-> ""])
  /\ pc' = Set(pc, p, "unlock")
  /\ UNCHANGED <<pr, line, counts, inserted, sortedStats, scn, started, now, lockFile, cacheFile, cfg,
                 ctxErr, flk, cached, hist>>

\* A faulty AnalyzeWithCache, to show that C18 depends on the save error
\* being only logged: a failed save fails the invocation.
SaveDeferFatal(p) ==
  /\ pc[p] = "save_defer"
  /\ LET l == [loc[p] EXCEPT !.out = 0, !.renames = 0]
     IN /\ tmpFile' = 0
        /\ disk' = Collect(disk, cacheFile, 0, Set(loc, p, l))
        /\ loc' = Set(loc, p, l)
  /\ ret' = Set(ret, p, IF hist[p].saved
                        THEN [stats |-> loc[p].entry.Stats, err |-> ""]
                        ELSE [stats |-> Nil, err |-> "save failed"])
  /\ pc' = Set(pc, p, "unlock")
  /\ UNCHANGED <<pr, line, counts, inserted, sortedStats, scn, started, now, lockFile, cacheFile, cfg, ctxErr, flk, cached, hist>>

\* The deferred out.Close() and os.Remove(tmp), and the return of
\* AnalyzeWithCache: a failed save is logged, the stats are returned.
SaveDefer(p) ==
  /\ pc[p] = "save_defer"
  /\ LET l == [loc[p] EXCEPT !.out = 0, !.renames = 0]
     IN /\ tmpFile' = 0
        /\ disk' = Collect(disk, cacheFile, 0, Set(loc, p, l))
        /\ loc' = Set(loc, p, l)
  /\ ret' = Set(ret, p, [stats |-> loc[p].entry.Stats, err |-> ""])
  /\ pc' = Set(pc, p, "unlock")
  /\ UNCHANGED <<pr, line, counts, inserted, sortedStats, scn, started, now, lockFile, cacheFile, cfg, ctxErr, flk, cached, hist>>

SaveCache(p) == SaveCreate(p) \/ SaveWrite(p) \/ SaveRename(p) \/ SaveDefer(p)

\* ------------------------------------------------------ the invocation
AnalyzeWithCache(p) ==
  \/ Start(p)
  \/ CleanupStaleLock(p)
  \/ AcquireLockWithContext(p)
  \/ LoadStep(p) \/ LoadRemove(p)
  \/ TrustWindow(p)
  \/ Download(p)
  \/ SaveCache(p)
  \/ ReleaseLock(p)

Next ==
  \/ Tick
  \/ \E p \in Procs : Cancel(p) \/ DeadlineExceeded(p) \/ AnalyzeWithCache(p)

Spec == Init /\ [][Next]_vars

\* ------------------------------------------------- after a crash
\* A holder has crashed: its marker file is left, its flock is gone with
\* the process. Two later invocations run, with a remote that fails or
\* serves Body2 and a cache file the crash left unparseable.
Crash ==
  [procs |-> Procs, runs |-> 2,
   cfgs |-> {[ForceRefresh |-> FALSE, ShortCacheWindow |-> ShortCacheWindow]},
   head |-> {TransportError},
   get |-> {TransportError, Response(200, << <<"v1">>, <<"m1">> >>, Gzip(Body2))},
   caches |-> {Garbage}]

InitCrash ==
  /\ scn = Crash
  /\ line = <<>> /\ counts = EmptyMap /\ inserted = <<>> /\ sortedStats = NotSorted
  /\ pr = NoReader
  /\ started = 0
  /\ now = 0
  /\ lockFile = [ino |-> 1, mtime |-> 0 - LockStaleTTL]
  /\ tmpFile = 0
  /\ cacheFile = 1
  /\ disk = [k \in DiskInodes |-> IF k = 1 THEN Garbage ELSE Empty]
  /\ pc = [p \in Procs |-> "idle"]
  /\ cfg = [p \in Procs |-> NoConfig]
  /\ ctxErr = [p \in Procs |-> ""]
  /\ flk = [p \in Procs |-> NoFlock]
  /\ cached = [p \in Procs |-> Nil]
  /\ loc = [p \in Procs |-> NoLocals]
  /\ ret = [p \in Procs |-> Nil]
  /\ hist = [p \in Procs |-> NoHist]

\* The processes are scheduled: while some step is possible, one is taken.
\* Every invocation takes finitely many steps, so no process waits for
\* ever behind the steps of another.
SpecCrash == InitCrash /\ [][Next]_vars /\ WF_vars(Next)

\* ------------------------------------------- saving, then loading
\* A caller that saves an entry and loads it at once, as TestLoadCache does,
\* over every entry of StoreEntries: strings that are empty, plain, or hold
\* a byte that is no UTF-8, and timestamps of every age up to past the ttl.
StoreStrings(s) == {<<>>, s, <<BadByte>>}
StoreStats ==
  {<<>>, InitStats, <<[Name |-> <<BadByte, "a">>, FileCount |-> 1]>>}
StoreEntries ==
  {CacheEntry(arch, stats, ts, etag, lastMod, url, <<>>) :
     arch \in {Architecture, <<BadByte>>}, stats \in StoreStats,
     ts \in (0 - (CacheTTL + 1))..0,
     etag \in StoreStrings(<<"v1">>), lastMod \in {<<>>, <<"m1">>},
     url \in {URL, <<>>}}

Store ==
  [procs |-> {"p1"}, runs |-> 0, cfgs |-> {NoConfig}, head |-> {}, get |-> {},
   caches |-> {Empty, Garbage}]

InitStore ==
  /\ scn = Store
  /\ line = <<>> /\ counts = EmptyMap /\ inserted = <<>> /\ sortedStats = NotSorted
  /\ pr = NoReader
  /\ started = 0
  /\ now = 0
  /\ lockFile = NoMarker
  /\ tmpFile = 0
  /\ \E c \in scn.caches :
       /\ cacheFile = IF c = Empty THEN 0 ELSE 1
       /\ disk = [k \in DiskInodes |-> IF k = 1 THEN c ELSE Empty]
  /\ pc = [p \in Procs |-> IF p \in scn.procs THEN "save_create" ELSE "idle"]
  /\ cfg = [p \in Procs |-> NoConfig]
  /\ ctxErr = [p \in Procs |-> ""]
  /\ flk = [p \in Procs |-> NoFlock]
  /\ cached = [p \in Procs |-> Nil]
  /\ \E e \in StoreEntries :
       loc = [p \in Procs |-> IF p \in scn.procs THEN [NoLocals EXCEPT !.entry = e]
                              ELSE NoLocals]
  /\ ret = [p \in Procs |-> Nil]
  /\ hist = [p \in Procs |-> NoHist]

\* SaveCache has returned; the caller calls LoadCache.
ThenLoad(p) ==
  /\ pc[p] = "unlock"
  /\ pc' = Set(pc, p, "load")
  /\ UNCHANGED <<pr, line, counts, inserted, sortedStats, scn, started, now, lockFile, cacheFile, tmpFile, disk, cfg, ctxErr, flk,
                 cached, loc, ret, hist>>

NextStore ==
  \E p \in Procs : SaveCache(p) \/ ThenLoad(p) \/ LoadStep(p) \/ LoadRemove(p)

SpecStore == InitStore /\ [][NextStore]_vars

\* ------------------------------------------------ scanning lines
\* The scan loop of Download on its own: scanner.Scan() delivers a line,
\* ProcessLine(scanner.Text(), counts) updates the map. The lines are all
\* strings of up to MaxLen characters over a space, a comma and a letter,
\* and some longer ones: headers, tabs, several names.
LineAlphabet == {" ", ",", "a"}
Lines ==
  UNION {[1..k -> LineAlphabet] : k \in 0..MaxLen}
    \cup {<<"F", "I", "L", "E">>, <<"F", "I", "L", "E", " ", "a">>,
          <<" ", "F", "I", "L", "E", "S", " ", "a">>, <<"f", "I", "L", "E", " ", "b">>,
          <<"f", " ", "a", ",", "b">>, <<"f", " ", "a", " ", "b", ",", " ", "a", " ">>,
          <<"f", "\t", "a">>, <<"\t", "f", " ", "b", ",", "b", "\t">>}

RECURSIVE Total(_)
Total(m) ==
  IF DOMAIN m = {} THEN 0
  ELSE LET n == CHOOSE x \in DOMAIN m : TRUE
       IN m[n] + Total([x \in DOMAIN m \ {n} |-> m[x]])

NoScenario ==
  [procs |-> {}, runs |-> 0, cfgs |-> {}, head |-> {}, get |-> {}, caches |-> {Empty}]

InitLines ==
  /\ line \in Lines /\ counts = EmptyMap /\ inserted = <<>> /\ sortedStats = NotSorted
  /\ pr = NoReader
  /\ scn = NoScenario
  /\ started = 0
  /\ now = 0
  /\ lockFile = NoMarker
  /\ tmpFile = 0
  /\ cacheFile = 0
  /\ disk = [k \in DiskInodes |-> Empty]
  /\ pc = [p \in Procs |-> "idle"]
  /\ cfg = [p \in Procs |-> NoConfig]
  /\ ctxErr = [p \in Procs |-> ""]
  /\ flk = [p \in Procs |-> NoFlock]
  /\ cached = [p \in Procs |-> Nil]
  /\ loc = [p \in Procs |-> NoLocals]
  /\ ret = [p \in Procs |-> Nil]
  /\ hist = [p \in Procs |-> NoHist]

\* The keys a line inserts into the map, in the order of their insertion.
RECURSIVE InsertKeys(_, _)
InsertKeys(pkgs, seen) ==
  IF pkgs = <<>> THEN seen
  ELSE LET pkg == TrimSpace(Head(pkgs))
       IN InsertKeys(Tail(pkgs),
                     IF pkg # <<>> /\ \A k \in 1..Len(seen) : seen[k] # pkg
                     THEN Append(seen, pkg) ELSE seen)

\* One turn of the loop, while the map holds fewer than MaxCount counts.
ScanLine ==
  /\ ~sortedStats.done
  /\ Total(counts) < MaxCount
  /\ counts' = ProcessLine(line, counts)
  /\ inserted' = LET after == ProcessLine(line, EmptyMap)
                     ln == TrimSpace(line)
                 IN IF after = EmptyMap THEN inserted
                    ELSE InsertKeys(Split(SubSeq(ln, Index(ln, " ") + 2, Len(ln)), ","),
                                    inserted)
  /\ line' \in Lines
  /\ UNCHANGED <<pr, sortedStats, scn, started, now, lockFile, cacheFile, tmpFile, disk, pc, cfg,
                 ctxErr, flk, cached, loc, ret, hist>>

\* The scanner is at the end of the body: stats := SortMap(counts).
SortStep ==
  /\ ~sortedStats.done
  /\ \E s \in SortMap(counts) : sortedStats' = [done |-> TRUE, stats |-> s]
  /\ UNCHANGED <<pr, line, counts, inserted, scn, started, now, lockFile, cacheFile, tmpFile, disk,
                 pc, cfg, ctxErr, flk, cached, loc, ret, hist>>

NextLines == ScanLine \/ SortStep

SpecLines == InitLines /\ [][NextLines]_vars

\* ------------------------------------------------ the progress reader
\* int(x) of a float64 x = a / b: the quotient truncated toward zero. With
\* the values up to MaxCurr and MaxTotal the float64 quotient truncates as
\* the exact one does.
TruncDiv(a, b) ==
  LET abs(x) == IF x < 0 THEN 0 - x ELSE x
      q == abs(a) \div abs(b)
  IN IF (a < 0) = (b < 0) THEN q ELSE 0 - q

\* render: with Total = 0 the amount is printed; else percent is
\* Curr / Total * 100 and the bar is strings.Repeat of int(percent/2) full
\* cells and strings.Repeat of 50 - int(percent/2) blanks. strings.Repeat
\* panics on a negative count. The speed and the ETA are float64
\* arithmetic, which does not panic.
render(total, curr) ==
  IF total = 0 THEN [kind |-> "amount", filled |-> 0, empty |-> 0]
  ELSE LET half == TruncDiv(curr * 100, total * 2)
       IN [kind |-> IF half < 0 \/ 50 - half < 0 THEN "panic" ELSE "bar",
           filled |-> half, empty |-> 50 - half]

\* Download wraps resp.Body: Total is resp.ContentLength, -1 when the size
\* is unknown.
InitProgress ==
  /\ \E total \in (0 - 1)..MaxTotal : pr = [NoReader EXCEPT !.Total = total]
  /\ line = <<>> /\ counts = EmptyMap /\ inserted = <<>> /\ sortedStats = NotSorted
  /\ scn = NoScenario
  /\ started = 0
  /\ now = 0
  /\ lockFile = NoMarker
  /\ tmpFile = 0
  /\ cacheFile = 0
  /\ disk = [k \in DiskInodes |-> Empty]
  /\ pc = [p \in Procs |-> "idle"]
  /\ cfg = [p \in Procs |-> NoConfig]
  /\ ctxErr = [p \in Procs |-> ""]
  /\ flk = [p \in Procs |-> NoFlock]
  /\ cached = [p \in Procs |-> Nil]
  /\ loc = [p \in Procs |-> NoLocals]
  /\ ret = [p \in Procs |-> Nil]
  /\ hist = [p \in Procs |-> NoHist]

\* ProgressReader.Read: the wrapped reader delivers n bytes and err; Curr
\* grows by n; render runs when bytes came and more than 500ms have passed
\* since the last one (late), and again at io.EOF. A panic in render ends
\* the program: Read does not return.
Read ==
  /\ ~pr.panicked /\ pr.got.err = "" /\ pr.Curr < MaxCurr
  /\ \E n \in 0..MaxRead, err \in {"", "EOF", "unexpected EOF"}, late \in BOOLEAN :
       LET curr == IF n > 0 THEN pr.Curr + n ELSE pr.Curr
           first == IF n > 0 /\ late THEN render(pr.Total, curr) ELSE pr.bar
           second == IF err = "EOF" /\ first.kind # "panic"
                     THEN render(pr.Total, curr) ELSE first
           panicked == second.kind = "panic"
       IN pr' = [Total |-> pr.Total, Curr |-> curr, sum |-> pr.sum + n,
                 got |-> [n |-> n, err |-> err],
                 returned |-> IF panicked THEN NoRead ELSE [n |-> n, err |-> err],
                 bar |-> second, panicked |-> panicked]
  /\ UNCHANGED <<line, counts, inserted, sortedStats, scn, started, now, lockFile, cacheFile,
                 tmpFile, disk, pc, cfg, ctxErr, flk, cached, loc, ret, hist>>

SpecProgress == InitProgress /\ [][Read]_vars

\* ============================================================== claims
\* The process is between its successful flock and its Unlock: it executes
\* the load -> fetch -> save section.
Holding(p) == flk[p].locked

\* C1: at most one process at a time holds the lock of the architecture and
\* executes the load -> fetch -> save section.
C1_MutualExclusion ==
  \A p, q \in Procs : p # q => ~(Holding(p) /\ Holding(q))

\* The process has acquired the lock and has not yet returned to its caller.
Acquired(p) ==
  pc[p] \notin {"idle", "cleanup", "cleanup_rm", "open", "flock", "lock_wait", "done"}

\* C2: an invocation that acquired the lock returns only with the lock
\* released (unlocked, descriptor closed) and the marker path removed; no
\* terminated invocation holds the lock.
C2_ReleasedOnEveryExit ==
  [][\A p \in Procs :
       /\ pc'[p] = "done" => ~flk'[p].locked /\ flk'[p].fh = 0
       /\ (Acquired(p) /\ pc'[p] = "done") => lockFile'.ino = 0]_vars

\* An invocation cancelled during its download has returned the context's
\* error and holds nothing.
C2_Witness ==
  \E p \in Procs :
    /\ pc[p] = "done" /\ ret[p] # Nil /\ ret[p].err = "context canceled"
    /\ started = 1 /\ ~flk[p].locked /\ lockFile.ino = 0

\* C3: the file at the cache path is never a partially written record: it
\* is absent, or a complete record, or the unparseable file it was from the
\* beginning.
C3_NoPartialRecord ==
  cacheFile # 0 => disk[cacheFile].form \in {"object", "garbage"}

\* AnalyzeWithCache has evaluated its return values; the deferred release
\* is what remains.
Returned(p) == pc[p] \in {"unlock", "unlink"}

\* The record the cache path holds, Nil when it holds none that parses.
Persisted ==
  IF cacheFile = 0 THEN Nil ELSE UnmarshalEntry(disk[cacheFile]).entry

\* C4: when GetRequestWithRetry fails (transport errors for the whole retry
\* budget, or the context done), AnalyzeWithCache returns the cached items
\* and no error if it holds a current record, else the fetch's error and no
\* items.
C4_FallbackOrError ==
  \A p \in Procs :
    (Returned(p) /\ hist[p].getErr # "") =>
      /\ hist[p].getErr = "transport error" => hist[p].get = MaxRetries
      /\ ret[p] = IF cached[p] # Nil
                  THEN [stats |-> cached[p].Stats, err |-> ""]
                  ELSE [stats |-> Nil, err |-> hist[p].getErr]

C4_Witness ==
  \E p \in Procs :
    /\ Returned(p) /\ hist[p].getErr = "transport error" /\ hist[p].get = MaxRetries
    /\ cached[p] # Nil /\ ret[p] = [stats |-> cached[p].Stats, err |-> ""]

\* C5: with a cached record, a probe answered 304, or with the cached ETag
\* and Last-Modified, makes Download return the cached items and tokens
\* without a GET request.
C5_ProbeUnchanged ==
  \A p \in Procs :
    LET r == loc[p].headResp
        c == cached[p]
    IN (r # Nil /\ r.err = "" /\ c # Nil
        /\ (r.status = 304 \/ (r.etag = c.ETag /\ r.lastMod = c.LastModified))) =>
         /\ pc[p] = "save_create"
         /\ hist[p].get = 0
         /\ loc[p].entry # Nil
         /\ loc[p].entry.Stats = c.Stats
         /\ loc[p].entry.ETag = c.ETag
         /\ loc[p].entry.LastModified = c.LastModified

C5_Witness ==
  \E p \in Procs :
    /\ pc[p] = "save_create" /\ loc[p].headResp # Nil /\ loc[p].headResp.err = ""
    /\ loc[p].headResp.status = 200 /\ cached[p] # Nil /\ cached[p].ETag # <<>>
    /\ loc[p].headResp.etag = cached[p].ETag
    /\ loc[p].headResp.lastMod = cached[p].LastModified
    /\ hist[p].get = 0

\* C6: when the probe-then-fetch cycle reports "unchanged", AnalyzeWithCache
\* returns the cached items and the persisted record, timestamp included,
\* is the one it loaded.
C6_NoWriteWhenUnchanged ==
  \A p \in Procs :
    (Returned(p) /\ hist[p].via = "unchanged") =>
      /\ ret[p] = [stats |-> cached[p].Stats, err |-> ""]
      /\ ~hist[p].saved
      /\ Persisted = cached[p]

\* C7: a record is written only after a fetch that downloaded and parsed
\* new data; when AnalyzeWithCache falls back to the cached items because
\* the fetch failed, the persisted record is the one it loaded.
C7_NoWriteOnFallback ==
  \A p \in Procs :
    /\ (Returned(p) /\ hist[p].saved) => hist[p].via = "fresh"
    /\ (Returned(p) /\ hist[p].via \in {"fallback", "stale"}) => Persisted = cached[p]

\* C8: a loaded record younger than a positive ShortCacheWindow is returned
\* with no HEAD, no GET and no write; with a record at or above the window,
\* or a window of 0, the probe runs.
C8_TrustWindow ==
  [][\A p \in Procs :
       /\ (pc[p] = "window" /\ pc'[p] # "window" /\ cached[p] # Nil) =>
            IF /\ cfg[p].ShortCacheWindow > 0
               /\ now - cached[p].Timestamp < cfg[p].ShortCacheWindow
            THEN /\ pc'[p] = "unlock"
                 /\ ret'[p] = [stats |-> cached[p].Stats, err |-> ""]
                 /\ hist'[p].via = "trust"
            ELSE pc'[p] = "head"
       /\ (pc[p] = "head" /\ pc'[p] # "head") => hist'[p].head = 1
       /\ (Returned(p)' /\ hist'[p].via = "trust") =>
            /\ hist'[p].head = 0 /\ hist'[p].get = 0 /\ ~hist'[p].saved
            /\ cacheFile' = cacheFile /\ disk' = disk]_vars

C8_Witness ==
  \E p \in Procs :
    /\ pc[p] = "unlock" /\ hist[p].via = "trust" /\ cached[p] # Nil
    /\ ret[p] = [stats |-> cached[p].Stats, err |-> ""]
    /\ hist[p].head = 0 /\ hist[p].get = 0

\* C10: LoadCache on a file that does not parse returns an error and no
\* record and leaves the path without a file, so that a second LoadCache
\* fails as not found; AnalyzeWithCache goes on as a cold start: no cached
\* record, and items only from a full fetch.
C10_CorruptIsPurged ==
  [][\A p \in Procs :
       /\ (/\ pc[p] = "load" /\ pc'[p] # "load" /\ ~cfg[p].ForceRefresh
           /\ cacheFile # 0 /\ ~UnmarshalEntry(disk[cacheFile]).ok) =>
            /\ pc'[p] = "load_rm" /\ cached'[p] = Nil
            /\ hist'[p].loadErr = "corrupt cache removed"
       /\ (pc[p] = "load_rm" /\ pc'[p] # "load_rm") =>
            /\ cacheFile' = 0
            /\ LoadCache(cacheFile' # 0, Empty, now', CacheTTL).err = "not found"
            /\ pc'[p] = "window"
       /\ (hist'[p].loadErr = "corrupt cache removed" /\ pc'[p] # "done") =>
            /\ cached'[p] = Nil
            /\ hist'[p].via \in {"", "fresh", "error"}
            /\ Returned(p)' /\ ret'[p].err = "" => hist'[p].head = 1 /\ hist'[p].get >= 1]_vars

C10_Witness ==
  \E p \in Procs :
    /\ Returned(p) /\ hist[p].loadErr = "corrupt cache removed" /\ cached[p] = Nil
    /\ hist[p].via = "fresh" /\ hist[p].get >= 1 /\ ret[p].err = ""

\* Every string of the entry is valid UTF-8.
ValidUTF8(str) == \A k \in 1..Len(str) : str[k] # BadByte
ValidEntry(e) ==
  /\ ValidUTF8(e.Architecture) /\ ValidUTF8(e.ETag) /\ ValidUTF8(e.LastModified)
  /\ ValidUTF8(e.URL)
  /\ \A k \in 1..Len(e.Stats) : ValidUTF8(e.Stats[k].Name)

\* SaveCache returned nil and LoadCache has returned, for an entry younger
\* than the ttl.
SavedThenLoaded(p) ==
  /\ pc[p] = "window" /\ hist[p].saved
  /\ now - loc[p].entry.Timestamp < CacheTTL

\* C9 as stated: for every entry, SaveCache succeeding and LoadCache right
\* after it, with a ttl above the entry's age, return an entry equal field
\* for field to the one saved.
C9_RoundTripEveryRecord ==
  \A p \in Procs :
    SavedThenLoaded(p) => hist[p].loadErr = "" /\ cached[p] = loc[p].entry

\* C9, amended: the round trip returns an equal entry for every entry whose
\* strings are valid UTF-8.
C9_RoundTripValidRecord ==
  \A p \in Procs :
    (SavedThenLoaded(p) /\ ValidEntry(loc[p].entry)) =>
      hist[p].loadErr = "" /\ cached[p] = loc[p].entry

C9_Witness ==
  \E p \in Procs :
    /\ SavedThenLoaded(p) /\ ValidEntry(loc[p].entry)
    /\ loc[p].entry.ETag = <<>> /\ loc[p].entry.LastModified # <<>>
    /\ loc[p].entry.Stats # <<>> /\ loc[p].entry.Checksum # <<>>
    /\ cached[p] = loc[p].entry

\* C11: LoadCache on a record that parses and is older than the ttl returns
\* "cache expired" and no record and leaves the file as it is; a record of
\* an age up to the ttl is returned.
C11_ExpiredIsKept ==
  [][\A p \in Procs :
       (/\ pc[p] = "load" /\ pc'[p] # "load" /\ ~cfg[p].ForceRefresh
        /\ cacheFile # 0 /\ UnmarshalEntry(disk[cacheFile]).ok) =>
         LET e == UnmarshalEntry(disk[cacheFile]).entry
         IN /\ pc'[p] = "window"
            /\ cacheFile' = cacheFile /\ disk' = disk
            /\ IF now - e.Timestamp > CacheTTL
               THEN cached'[p] = Nil /\ hist'[p].loadErr = "cache expired"
               ELSE cached'[p] = e /\ hist'[p].loadErr = ""]_vars

\* An expired record was refused and is still at the cache path.
C11_Witness ==
  \E p \in Procs :
    /\ pc[p] = "window" /\ cacheFile # 0 /\ UnmarshalEntry(disk[cacheFile]).ok
    /\ hist[p].loadErr = "cache expired" /\ cached[p] = Nil
    /\ now - UnmarshalEntry(disk[cacheFile]).entry.Timestamp = CacheTTL + 1

\* The GET answered by p's last request, when it is an HTTP answer.
Answered(p, status) ==
  /\ loc[p].resp # Nil /\ loc[p].resp.err = "" /\ loc[p].resp.status = status

\* C12: with no cache record, a GET answered 404 makes the invocation fail
\* with the not-found error that names the URL; the answer is not retried
\* (one GET when no transport error came before), nothing is saved and no
\* cache file exists afterwards.
C12_NotFoundIsFatal ==
  \A p \in Procs :
    (Returned(p) /\ cached[p] = Nil /\ Answered(p, 404)) =>
      /\ ret[p] = [stats |-> Nil,
                   err |-> "404: Requested Package Contents Not Found: " \o URL[1]]
      /\ hist[p].get = loc[p].i + 1
      /\ ~hist[p].saved
      /\ (hist[p].loadErr = "not found" /\ scn.procs = {p}) => cacheFile = 0 /\ tmpFile = 0

C12_Witness ==
  \E p \in Procs :
    /\ Returned(p) /\ cached[p] = Nil /\ Answered(p, 404)
    /\ hist[p].loadErr = "not found" /\ hist[p].get = 1 /\ cacheFile = 0
    /\ ret[p].stats = Nil /\ ret[p].err = NotFoundError(URL)

\* The error Download makes of a GET answer with a status other than 200
\* and 304.
StatusError(status) ==
  IF status = 404 THEN NotFoundError(URL) ELSE HTTPError(status, URL)
FailureStatuses == {r.status : r \in {x \in GetResponses : x.err = ""}} \ {200, 304}

\* C13 as stated: a GET answered 404 or with another non-success status
\* ends the invocation with that error and no result, also when a current
\* cache record is held.
C13_HTTPErrorAlwaysFatal ==
  \A p \in Procs : \A st \in FailureStatuses :
    (Returned(p) /\ Answered(p, st)) =>
      ret[p].err = StatusError(st) /\ ret[p].stats = Nil

\* C13, amended: such an answer is not retried; without a current cache
\* record the invocation ends with that error and no result; with one it
\* returns the cached items and no error, and writes nothing.
C13_HTTPErrorFatalWithoutCache ==
  \A p \in Procs : \A st \in FailureStatuses :
    (Returned(p) /\ Answered(p, st)) =>
      /\ hist[p].get = loc[p].i + 1
      /\ ~hist[p].saved
      /\ IF cached[p] = Nil
         THEN ret[p].err = StatusError(st) /\ ret[p].stats = Nil
         ELSE ret[p].err = "" /\ ret[p].stats = cached[p].Stats

C13_Witness ==
  \E p \in Procs :
    /\ Returned(p) /\ Answered(p, 500) /\ cached[p] # Nil
    /\ ret[p] = [stats |-> cached[p].Stats, err |-> ""]
    /\ hist[p].via = "stale" /\ Persisted = cached[p]

\* C14: when the caller's cancellation fires during the probe, a GET
\* attempt, a backoff or the body scan, AnalyzeWithCache returns an error
\* and no result (main then sees ctx.Err() = context.Canceled and exits with
\* 130), with or without a current cache record.
C14_CancelIsFatal ==
  \A p \in Procs :
    (Returned(p) /\ ctxErr[p] = "context canceled") =>
      ret[p].err # "" /\ ret[p].stats = Nil

\* C15: a process that waits for the lock fails with the timeout only while
\* another process still holds the lock: once the holder has released, the
\* waiting process acquires the lock.
C15_AcquiresAfterRelease ==
  [][\A p \in Procs :
       (/\ pc[p] \in {"flock", "lock_wait"} /\ pc'[p] = "done"
        /\ ret'[p].err = "context deadline exceeded") =>
         \E q \in Procs \ {p} : flk[q].locked]_vars

\* AnalyzeWithCache before it has the lock.
LockPoints == {"cleanup", "cleanup_rm", "open", "flock", "lock_wait"}

\* C16: AcquireLockWithContext ends with the lock held or with an error,
\* never with neither; an error (the lock held by another for the whole
\* timeout, or the context cancelled while waiting) ends AnalyzeWithCache
\* with that error, with nothing loaded, fetched or saved.
C16_HandleOrError ==
  [][\A p \in Procs :
       pc[p] \in LockPoints =>
         /\ pc'[p] \in LockPoints \cup {"load", "done"}
         /\ pc'[p] = "load" => flk'[p].locked /\ flk'[p].fh # 0
         /\ pc'[p] = "done" =>
              /\ ret'[p].err # "" /\ ret'[p].stats = Nil
              /\ ~flk'[p].locked
              /\ pc[p] = "lock_wait" /\ ctxErr[p] # "" => ret'[p].err = ctxErr[p]
         /\ pc'[p] # "load" =>
              /\ cached'[p] = Nil /\ hist'[p] = NoHist
              /\ cacheFile' = cacheFile \/ \E q \in Procs \ {p} : pc'[q] # pc[q]]_vars

\* The lock was held by another process for the whole timeout.
C16_Witness ==
  \E p \in Procs :
    /\ pc[p] = "done" /\ ret[p] # Nil /\ ret[p].err = "context deadline exceeded"
    /\ hist[p] = NoHist /\ ~flk[p].locked
    /\ \E q \in Procs \ {p} : flk[q].locked

\* C17: a marker file left by a crashed holder never blocks the key: an
\* invocation that starts acquires the lock, unless a live process holds
\* it then.
C17_CrashNeverBlocks ==
  \A p \in Procs :
    (pc[p] = "cleanup") ~> (Holding(p) \/ \E q \in Procs \ {p} : Holding(q))

\* The lock is held on the marker the crashed holder left, before it is
\* stale.
C17_Witness ==
  \E p \in Procs :
    /\ Holding(p) /\ started = 1
    /\ flk[p].fh = lockFile.ino /\ lockFile.mtime = 0 - LockStaleTTL
    /\ now - lockFile.mtime <= LockStaleTTL

\* The stats a download can produce from the bodies the remote serves.
FetchedStats == UNION {SortMap(ScanLines(b.lines, EmptyMap)) : b \in Bodies}
SavePoints == {"save_create", "save_write", "save_rename", "save_defer"}

\* C18: when the fetch produced new items and SaveCache fails (os.Create,
\* the write, or every rename), AnalyzeWithCache returns the fetched items
\* and no error, and no step of the failed save changes what the cache path
\* holds. The second part is about an invocation that no other one
\* overlaps: two writers inside the section at once (C1) share the tmp file.
C18_SaveFailureKeepsResult ==
  [][\A p \in Procs :
       /\ (Returned(p)' /\ hist'[p].via = "fresh" /\ ~hist'[p].saved) =>
            /\ ret'[p].err = "" /\ ret'[p].stats = loc'[p].entry.Stats
            /\ ret'[p].stats \in FetchedStats
       /\ (/\ pc[p] \in SavePoints /\ ~hist'[p].saved /\ scn.procs = {p}
           /\ (pc'[p] # pc[p] \/ loc'[p] # loc[p])) =>
            /\ cacheFile' = cacheFile
            /\ cacheFile # 0 => disk'[cacheFile] = disk[cacheFile]]_vars

\* A failed save after a download of other items than the cached ones: the
\* new items are returned, the old record is at the cache path.
C18_Witness ==
  \E p \in Procs :
    /\ Returned(p) /\ hist[p].via = "fresh" /\ ~hist[p].saved /\ scn.procs = {p}
    /\ cached[p] # Nil /\ Persisted = cached[p]
    /\ ret[p].err = "" /\ ret[p].stats # cached[p].Stats
    /\ ret[p].stats \in FetchedStats

\* C19: with ForceRefresh the record is not loaded: no trust-window return,
\* no conditional headers on HEAD and GET, no return of cached items; a
\* download that fails fails the invocation and nothing is written, one
\* that succeeds and is saved replaces the record at the cache path (for an
\* invocation that no other one overlaps).
C19_ForceRefresh ==
  [][\A p \in Procs :
       (cfg[p].ForceRefresh /\ pc[p] \notin LockPoints \cup {"idle", "done"}) =>
         /\ cached'[p] = Nil /\ hist'[p].loadErr = ""
         /\ hist'[p].via \in {"", "fresh", "error"}
         /\ hist'[p].cond = {}
         /\ pc[p] = "window" /\ pc'[p] # "window" => pc'[p] = "head" /\ hist'[p].head = 0
         /\ Returned(p)' =>
              /\ hist'[p].head = 1
              /\ IF ret'[p].err # ""
                 THEN ret'[p].stats = Nil /\ ~hist'[p].saved
                 ELSE hist'[p].via = "fresh" /\ ret'[p].stats \in FetchedStats
         /\ (scn.procs = {p} /\ ~hist'[p].saved) =>
              /\ cacheFile' = cacheFile
              /\ cacheFile # 0 => disk'[cacheFile] = disk[cacheFile]
         /\ (scn.procs = {p} /\ ~hist[p].saved /\ hist'[p].saved) =>
              Persisted' = loc[p].entry]_vars

\* A forced refresh over an existing record: downloaded, saved, replaced.
C19_Witness ==
  \E p \in Procs :
    /\ Returned(p) /\ cfg[p].ForceRefresh /\ scn.procs = {p} /\ started = 1
    /\ hist[p].saved /\ hist[p].via = "fresh" /\ hist[p].head = 1 /\ hist[p].get >= 1
    /\ Persisted = loc[p].entry /\ ret[p].stats = loc[p].entry.Stats
    /\ ret[p].stats # InitStats

\* What the claim says of one line: the part after the first space of the
\* trimmed line, cut at the commas; nothing for an empty line, a line that
\* starts with FILE and a line with no space.
Fields(l) ==
  LET t == TrimSpace(l)
      spaces == {k \in 1..Len(t) : t[k] = " "}
  IN IF t = <<>> \/ spaces = {} \/ HasPrefix(t, <<"F", "I", "L", "E">>) THEN <<>>
     ELSE LET first == CHOOSE k \in spaces : \A j \in spaces : k <= j
          IN Split(SubSeq(t, first + 1, Len(t)), ",")
Occurrences(name, fs) == Cardinality({k \in 1..Len(fs) : TrimSpace(fs[k]) = name})
CountOf(m, name) == IF name \in DOMAIN m THEN m[name] ELSE 0

\* C20: ProcessLine (a step of the scan loop: SortMap has not run) adds 1
\* to the count of each non-empty trimmed name
\* between the commas after the first space of the trimmed line, once per
\* occurrence, and changes nothing else; an empty line, a line that starts
\* with FILE and a line with no space leave the map as it is.
C20_ProcessLine ==
  [][LET fs == Fields(line)
         names == {TrimSpace(fs[k]) : k \in 1..Len(fs)} \ {<<>>}
     IN ~sortedStats'.done =>
        /\ DOMAIN counts' = DOMAIN counts \cup names
        /\ \A n \in DOMAIN counts' : counts'[n] = CountOf(counts, n) + Occurrences(n, fs)
        /\ fs = <<>> => counts' = counts]_vars

\* Two lines were scanned: a name counted twice next to another name.
C20_Witness ==
  /\ scn = NoScenario
  /\ \E n \in DOMAIN counts : counts[n] = 2
  /\ Cardinality(DOMAIN counts) >= 2

\* Where a key stands in the order of insertion.
Position(seq, name) == CHOOSE k \in 1..Len(seq) : seq[k] = name

\* C21: SortMap returns one item per entry of the aggregation, with the
\* entry's count, by count descending, and entries with equal counts in the
\* order of their insertion: the one sequence that this determines.
C21_SortMapStable ==
  LET st == sortedStats.stats
  IN sortedStats.done =>
       /\ Len(st) = Cardinality(DOMAIN counts)
       /\ {st[k].Name : k \in 1..Len(st)} = DOMAIN counts
       /\ \A k \in 1..Len(st) : st[k].FileCount = counts[st[k].Name]
       /\ \A j, k \in 1..Len(st) :
            j < k =>
              \/ st[j].FileCount > st[k].FileCount
              \/ /\ st[j].FileCount = st[k].FileCount
                 /\ Position(inserted, st[j].Name) < Position(inserted, st[k].Name)

\* C22: when LoadCache reported the stored record as expired and the fetch
\* then fails with transport errors, AnalyzeWithCache returns the items of
\* that record and no error.
C22_ExpiredIsFallback ==
  \A p \in Procs :
    (/\ Returned(p) /\ hist[p].loadErr = "cache expired"
     /\ hist[p].getErr = "transport error" /\ Persisted # Nil) =>
      ret[p].err = "" /\ ret[p].stats = Persisted.Stats

\* The probe failed: no answer, or an answer with a status outside 2xx/3xx.
ProbeFailed(r) == IF r.err # "" THEN TRUE ELSE r.status \notin 200..399

\* C23: after a probe that failed at transport level or was answered with a
\* status outside 2xx/3xx, Download returns nothing as "unchanged": it goes
\* on to the GET.
C23_FailedProbeGoesToGet ==
  \A p \in Procs :
    (loc[p].headResp # Nil /\ ProbeFailed(loc[p].headResp)) =>
      pc[p] = "get" /\ hist[p].via = "" /\ hist[p].head = 1

\* C24: GetRequestWithRetry sends at most MaxRetries GET requests; while it
\* runs, every request sent so far failed at transport level (i of them
\* before attempt i); an HTTP answer of any status ends it at once, with no
\* further request; the error of exhaustion comes after MaxRetries requests.
C24_RetryOnlyTransportFailures ==
  \A p \in Procs :
    /\ hist[p].get <= MaxRetries
    /\ pc[p] = "get" => hist[p].get = loc[p].i /\ loc[p].i < MaxRetries
    /\ pc[p] = "backoff" => hist[p].get = loc[p].i + 1 /\ loc[p].i < MaxRetries - 1
    /\ loc[p].resp # Nil =>
         /\ pc[p] \notin {"get", "backoff"}
         /\ hist[p].get = loc[p].i + 1
    /\ hist[p].getErr = "transport error" => hist[p].get = MaxRetries

\* Two transport failures, then an answer with status 500 to the third
\* request: returned as it is.
C24_Witness ==
  \E p \in Procs :
    /\ Returned(p) /\ Answered(p, 500) /\ hist[p].get = MaxRetries /\ loc[p].i = MaxRetries - 1
    /\ cached[p] = Nil /\ ret[p].err = HTTPError(500, URL)

\* C25: GetRequestWithRetry waits 1 second after the first failed attempt
\* and 2 seconds after the second, and does not wait after the last one;
\* when the context is cancelled or past its deadline before an attempt or
\* during a wait, it returns the context's error and sends no request more.
C25_BackoffAndCancel ==
  [][\A p \in Procs :
       /\ Len(hist'[p].waits) <= MaxRetries - 1
       /\ \A k \in 1..Len(hist'[p].waits) : hist'[p].waits[k] = 2 ^ (k - 1)
       /\ pc'[p] = "get" => Len(hist'[p].waits) = hist'[p].get
       /\ (hist'[p].getErr = "transport error") => Len(hist'[p].waits) = MaxRetries - 1
       /\ (pc[p] \in {"get", "backoff"} /\ ctxErr[p] # "" /\ pc'[p] # pc[p]) =>
            /\ hist'[p].getErr = ctxErr[p]
            /\ hist'[p].get = hist[p].get /\ hist'[p].waits = hist[p].waits
            /\ pc'[p] \notin {"get", "backoff", "scan"}]_vars

\* Cancelled during the second wait: one wait of a second was completed,
\* two requests were sent, the context's error is what the fetch returned.
C25_Witness ==
  \E p \in Procs :
    /\ Returned(p) /\ hist[p].getErr = "context canceled" /\ ctxErr[p] = "context canceled"
    /\ hist[p].get = 2 /\ hist[p].waits = <<1>>

\* C26: a GET answered 304 while no cached record is held (none stored, an
\* expired or corrupt one, or ForceRefresh) ends the invocation with an
\* error and no items, and nothing is written.
C26_NotModifiedWithoutCache ==
  \A p \in Procs :
    (cached[p] = Nil /\ Answered(p, 304)) =>
      /\ Returned(p)
      /\ ret[p].err = "304 received but no cache" /\ ret[p].stats = Nil
      /\ ~hist[p].saved /\ hist[p].via = "error"
      /\ scn.procs = {p} => tmpFile = 0

\* A 304 answer after the stored record was refused as expired.
C26_Witness ==
  \E p \in Procs :
    /\ Returned(p) /\ cached[p] = Nil /\ Answered(p, 304)
    /\ hist[p].loadErr = "cache expired" /\ ret[p].err # "" /\ ret[p].stats = Nil
    /\ Persisted # Nil

\* C27: the record at the cache path, when it has a timestamp, has items:
\* no invocation leaves a record with a non-zero timestamp and an empty
\* stats list.
C27_PersistedHasItems ==
  (Persisted # Nil /\ Persisted.Timestamp # ZeroTime) => Persisted.Stats # <<>>

\* C28: when SaveCache returns after os.Create succeeded (saved, or failed
\* in the write or in every rename), nothing is at the tmp path; a rename
\* that fails leaves the cache path and its content as they are, and after
\* RenameAttempts failures SaveCache returns without having saved.
C28_NoTmpLeftBehind ==
  [][\A p \in Procs :
       /\ (pc[p] = "save_defer" /\ pc'[p] # "save_defer") =>
            tmpFile' = 0 /\ pc'[p] = "unlock"
       /\ (pc[p] = "save_rename" /\ loc'[p].renames = loc[p].renames + 1) =>
            /\ cacheFile' = cacheFile /\ disk' = disk
            /\ ~hist'[p].saved
            /\ pc'[p] = IF loc'[p].renames = RenameAttempts THEN "save_defer" ELSE "save_rename"
       /\ loc'[p].renames <= RenameAttempts]_vars

\* Every rename failed: SaveCache is about to return its error, the cache
\* path holds the record the invocation loaded.
C28_Witness ==
  \E p \in Procs :
    /\ pc[p] = "save_defer" /\ loc[p].renames = RenameAttempts /\ ~hist[p].saved
    /\ tmpFile = 0 /\ cached[p] # Nil /\ Persisted = cached[p]

\* The marker at the lock path is older than the stale threshold.
Stale == lockFile.ino # 0 /\ now - lockFile.mtime > LockStaleTTL

\* C29: CleanupStaleLock deletes the marker exactly when it exists and is
\* older than LockStaleTTL and leaves it otherwise; it does not make the
\* caller a holder of the lock; the acquisition follows it in every case.
C29_CleanupOnlyStale ==
  [][\A p \in Procs :
       (pc[p] \in {"cleanup", "cleanup_rm"} /\ pc'[p] # pc[p]) =>
         /\ ~flk'[p].locked /\ flk'[p].fh = 0
         /\ pc'[p] \in {"cleanup_rm", "open"}
         /\ pc[p] = "cleanup" => lockFile' = lockFile /\ (pc'[p] = "cleanup_rm" <=> Stale)
         /\ pc[p] = "cleanup_rm" => lockFile'.ino = 0
         /\ lockFile' # lockFile => Stale]_vars

\* C30: CleanupStaleLock never deletes the marker file on which a live
\* process holds the lock, however long the lock has been held and whatever
\* the age of the marker it was acquired on.
C30_CleanupSparesHeldLock ==
  [][\A p \in Procs :
       (pc[p] = "cleanup_rm" /\ pc'[p] = "open" /\ lockFile.ino # 0) =>
         ~\E q \in Procs \ {p} : flk[q].locked /\ flk[q].fh = lockFile.ino]_vars

\* C31: when the remote's content has changed since the cached record was
\* captured and every request is answered 200, an invocation that does not
\* return within the trust window and whose download is not interrupted
\* returns the items of the new content, also when the record has no ETag
\* and no LastModified and the probe's answer has neither header.
C31_ChangedRemoteIsFetched ==
  \A p \in Procs :
    (/\ scn = Changed /\ Returned(p) /\ cached[p] # Nil
     /\ hist[p].via \in {"unchanged", "fresh"}) =>
      ret[p].err = "" /\ ret[p].stats \in SortMap(ScanLines(Body2, EmptyMap))

\* C32: the progress reader never aborts a download: whatever Total is (0,
\* negative, less than the bytes read), render does not panic, a rendered
\* bar has a filled and an empty width within 0..50, Read returns the byte
\* count and the error of the wrapped reader, and Curr is the sum of the
\* bytes read.
C32_ProgressNeverAborts ==
  /\ ~pr.panicked
  /\ pr.bar.kind \in {"none", "amount", "bar"}
  /\ pr.bar.filled \in 0..50 /\ pr.bar.empty \in 0..50
  /\ pr.returned = pr.got
  /\ pr.Curr = pr.sum

====
